---------------------------- MODULE Spec2Model ----------------------------
(***************************************************************************)
(* Deferred geometric-transform composition ("at most once" resampling).   *)
(*                                                                         *)
(*   monai/transforms/atmostonce/apply.py    apply and its helpers         *)
(*   monai/transforms/atmostonce/array.py    the lazy/eager wrappers       *)
(*   monai/transforms/atmostonce/utility.py  CachedTransform,              *)
(*                                           MultiSampleTransform          *)
(*                                                                         *)
(* Python values are modelled as strings ("None", "False", "0", ...), so   *)
(* that None, booleans, numbers and enum members can be compared with one  *)
(* another the way Python's == and truthiness do.                          *)
(***************************************************************************)
EXTENDS Integers, Sequences, FiniteSets, TLC

VARIABLES
    pending_transforms,   \* the image's pending queue (MetaTensor.pending_transforms)
    applied,              \* what the last call of apply did
    inst,                 \* the wrapper instance under use (self of array.py classes)
    called,               \* what the last wrapper call did
    cache,                \* CacheMechanism contents: key -> stored value
    thread,               \* CachedTransform.__call__ activations, one per thread
    runs,                 \* how often self.transforms ran, per key
    finished,             \* the CachedTransform calls that have returned, in order
    multi,                \* what the last MultiSampleTransform call did
    pure,                 \* the last call of one of apply.py's helper functions
    images,               \* the pending queues of the images given to concurrent applies
    frames                \* the activations of apply, one per image: its local variables

vars ==
    <<pending_transforms, applied, inst, called, cache, thread, runs, finished,
      multi, pure, images, frames>>

engineVars == <<pending_transforms, applied>>
wrapVars == <<inst, called>>
cacheVars == <<cache, thread, runs, finished>>
utilVars == <<multi, pure>>
runVars == <<images, frames>>

-----------------------------------------------------------------------------
(* Bounds of the model *)

MaxQueue == 3
MaxCalls == 2
MaxCached == 3
MaxSamples == 3
MaxCorners == 4
MaxPending == 2

-----------------------------------------------------------------------------
(* Python values *)

NONE == "None"

\* bool(v) is False: None, False, 0 (the values the wrappers' `a or b` skips)
Falsy(v) == v \in {"None", "False", "0"}

\* Python's `a or b`
PyOr(a, b) == IF Falsy(a) THEN b ELSE a

-----------------------------------------------------------------------------
(* Homogeneous 2D matrices and corner vectors over the integers *)

Dims == 1..3

MatMul(A, B) ==
    [i \in Dims |-> [j \in Dims |->
        A[i][1] * B[1][j] + A[i][2] * B[2][j] + A[i][3] * B[3][j]]]

\* numpy's  e @ M  for a 1-d e: the row vector times the matrix
VecMat(e, M) ==
    [j \in Dims |-> e[1] * M[1][j] + e[2] * M[2][j] + e[3] * M[3][j]]

Identity == <<<<1, 0, 0>>, <<0, 1, 0>>, <<0, 0, 1>>>>

Translate2(tx, ty) == <<<<1, 0, tx>>, <<0, 1, ty>>, <<0, 0, 1>>>>

\* rotate_euler(pi/2): [[0,-1,0],[1,0,0],[0,0,1]]
Rot90Matrix == <<<<0, -1, 0>>, <<1, 0, 0>>, <<0, 0, 1>>>>

FlipMatrix == <<<<-1, 0, 0>>, <<0, 1, 0>>, <<0, 0, 1>>>>

RECURSIVE MatPow(_, _)
MatPow(M, n) == IF n = 0 THEN Identity ELSE MatMul(M, MatPow(M, n - 1))

\* The image: one channel, 4 x 2 pixels (even sizes keep d / 2 integral)
ImageShape == <<1, 4, 2>>


-----------------------------------------------------------------------------
(* Pending entries: MetaMatrix(matrix, metadata) *)

Modes == {NONE, "bilinear", "nearest"}
PaddingModes == {NONE, "border", "zeros"}
Devices == {NONE, "cpu", "cuda"}
Dtypes == {NONE, "float32", "float64"}

Metadata(m, p, dv, dt, so) ==
    [mode |-> m, padding_mode |-> p, device |-> dv, dtype |-> dt,
     shape_override |-> so]

MetaMatrix(matrix, metadata) == [matrix |-> matrix, metadata |-> metadata]

\* The metadata dictionaries pushed directly onto a queue: nothing set, and
\* four in which each field is set to a value that differs from the value
\* another one sets (mode: 2-5, padding_mode: 2-3, device: 3-4, dtype: 4-5).
PendingMetadata ==
    {Metadata(NONE, NONE, NONE, NONE, NONE),
     Metadata("nearest", "border", NONE, NONE, NONE),
     Metadata(NONE, "zeros", "cpu", NONE, NONE),
     Metadata(NONE, NONE, "cuda", "float32", NONE),
     Metadata("bilinear", NONE, NONE, "float64", NONE)}

PendingMatrices == {Rot90Matrix, Translate2(1, 0)}

PendingEntries ==
    {MetaMatrix(mx, md) : mx \in PendingMatrices, md \in PendingMetadata}

\* img.push_pending_transform(entry)
push_pending_transform(q, entry) == Append(q, entry)

-----------------------------------------------------------------------------
(* apply.py: helpers *)

\* extents_from_shape: itertools.product of [0, shape[i]] over the axes after
\* the first, each corner followed by 1
RECURSIVE extents_from(_, _)
extents_from(shape, i) ==
    IF i > Len(shape)
    THEN <<<<1>>>>
    ELSE LET rest == extents_from(shape, i + 1)
         IN  [k \in 1..Len(rest) |-> <<0>> \o rest[k]]
                 \o [k \in 1..Len(rest) |-> <<shape[i]>> \o rest[k]]

extents_from_shape_all_axes(shape) == extents_from(shape, 1)

\* [[0, shape[i]] for i in range(1, len(shape))], it.product, e + (1,)
extents_from_shape(shape) == extents_from(shape, 2)

metadata_is_compatible_first_only(value_1, value_2) ==
    value_1 = NONE \/ value_1 = value_2

metadata_is_compatible(value_1, value_2) ==
    IF value_1 = NONE
    THEN TRUE
    ELSE IF value_2 = NONE THEN TRUE ELSE value_1 = value_2

\* matrix_factory.translate([d / 2 for d in data.shape[1:]])
translate_to_centre(shape) == Translate2(shape[2] \div 2, shape[3] \div 2)

starting_matrix_and_extents(shape) ==
    LET cumulative_extents == extents_from_shape(shape)
        ttc == translate_to_centre(shape)
    IN  [cumulative_matrix |-> MatMul(ttc, Identity),
         cumulative_extents |->
            [k \in 1..Len(cumulative_extents) |-> VecMat(cumulative_extents[k], ttc)]]

\* The kwargs dictionary; a key that is absent reads "None" here.
Kwargs(bound, m, p, dv, dt) ==
    [bound |-> bound, mode |-> m, padding_mode |-> p, device |-> dv, dtype |-> dt]

UnboundKwargs == Kwargs(FALSE, NONE, NONE, NONE, NONE)

prepare_args_dict_for_apply(cur_mode, cur_padding_mode, cur_device, cur_dtype) ==
    Kwargs(TRUE, cur_mode, cur_padding_mode, cur_device, cur_dtype)

\* Affine(norm_coords=False, affine=matrix, **kwargs)(img=data): one resample
AffineCall(matrix, kwargs) == [affine |-> matrix, kwargs |-> kwargs]

-----------------------------------------------------------------------------
(* apply.py: apply *)

\* The local variables of apply on entering the loop (lines 100-119)
ApplyStart(shape) ==
    LET s == starting_matrix_and_extents(shape)
    IN  [cumulative_matrix |-> s.cumulative_matrix,
         cumulative_extents |-> s.cumulative_extents,
         cur_mode |-> NONE, cur_padding_mode |-> NONE,
         cur_device |-> NONE, cur_dtype |-> NONE,
         kwargs |-> UnboundKwargs,
         data |-> "input",
         calls |-> <<>>]

\* Whether the loop takes its "intermediate apply required" branch
Incompatible(st, meta_matrix) ==
    LET md == meta_matrix.metadata
    IN  \/ ~metadata_is_compatible(st.cur_mode, md.mode)
        \/ ~metadata_is_compatible(st.cur_padding_mode, md.padding_mode)
        \/ ~metadata_is_compatible(st.cur_device, md.device)
        \/ ~metadata_is_compatible(st.cur_dtype, md.dtype)

\* cumulative_matrix = next_matrix @ cumulative_matrix
Compose(next_matrix, cumulative_matrix) == MatMul(next_matrix, cumulative_matrix)

\* One iteration of  for meta_matrix in pending_  (lines 121-160)
LoopBody(st, meta_matrix) ==
    LET cumulative_matrix == Compose(meta_matrix.matrix, st.cumulative_matrix)
        cumulative_extents ==
            [k \in 1..Len(st.cumulative_extents) |->
                VecMat(st.cumulative_extents[k], cumulative_matrix)]
        md == meta_matrix.metadata
        moved == [st EXCEPT !.cumulative_matrix = cumulative_matrix,
                            !.cumulative_extents = cumulative_extents]
    IN  IF Incompatible(st, meta_matrix)
        THEN LET kwargs == prepare_args_dict_for_apply(
                               st.cur_mode, st.cur_padding_mode,
                               st.cur_device, st.cur_dtype)
             IN  [moved EXCEPT !.kwargs = kwargs,
                               !.calls = Append(st.calls,
                                                AffineCall(cumulative_matrix, kwargs)),
                               !.data = "resampled",
                               !.cur_mode = md.mode,
                               !.cur_padding_mode = md.padding_mode,
                               !.cur_device = md.device,
                               !.cur_dtype = md.dtype]
        ELSE moved

RECURSIVE ApplyLoop(_, _)
ApplyLoop(st, pending_) ==
    IF pending_ = <<>>
    THEN st
    ELSE ApplyLoop(LoopBody(st, Head(pending_)), Tail(pending_))

\* The argument given for apply's `pending` parameter
NoPending == [given |-> FALSE, value |-> <<>>]
Pending(q) == [given |-> TRUE, value |-> q]

Outcome(kind, exc, value, queue, st) ==
    [kind |-> kind, exc |-> exc, value |-> value, queue |-> queue,
     calls |-> st.calls, st |-> st]

\* apply(data, pending): what the call does to an image of the given shape
\* whose queue is q.  kind is "returned" or "raised"; value is what is returned
\* ("data": the input object itself); queue is the pending queue of the object
\* `data` names when the call ends.
apply(shape, q, pending) ==
    IF ~pending.given
    THEN \* len(None)
         Outcome("raised", "TypeError", NONE, q, ApplyStart(shape))
    ELSE IF Len(pending.value) = 0
    THEN Outcome("returned", "none", "data", q, ApplyStart(shape))
    ELSE LET st == ApplyLoop(ApplyStart(shape), q)
         IN  IF ~st.kwargs.bound
             THEN \* **kwargs names a variable no statement has bound
                  Outcome("raised", "NameError", NONE, q, st)
             ELSE LET done == [st EXCEPT
                                  !.calls = Append(st.calls,
                                      AffineCall(st.cumulative_matrix, st.kwargs)),
                                  !.data = "resampled"]
                  IN  \* data.clear_pending_transforms(); no return statement
                      Outcome("returned", "none", NONE, <<>>, done)

NoOutcome == Outcome("none", "none", NONE, <<>>, ApplyStart(ImageShape))

\* The values apply's `pending` argument takes: omitted (the wrappers' call
\* apply(img)), an empty list, the image's own queue, some other list
PendingArgs(q) ==
    {NoPending, Pending(<<>>), Pending(q),
     Pending(<<MetaMatrix(Identity, Metadata(NONE, NONE, NONE, NONE, NONE))>>)}

-----------------------------------------------------------------------------
(* array.py: the wrappers.  Each __init__ stores its arguments on self, each *)
(* __call__ resolves the effective parameters, builds the entry, pushes it   *)
(* and, unless lazy_evaluation, calls apply(img_t).                          *)

Num(v) == CASE v = "0" -> 0 [] v = "1" -> 1 [] v = "2" -> 2 [] v = "3" -> 3
            [] OTHER -> 0

\* A tuple holding one value, as  self.mode = mode,  makes
Tuple1(v) ==
    CASE v = "area" -> "('area',)"
      [] v = "nearest" -> "('nearest',)"
      [] v = "bilinear" -> "('bilinear',)"
      [] OTHER -> "(None,)"

Spacing(pixdim, src_pixdim, diagonal, mode, padding_mode, align_corners, dtype, lazy_evaluation) ==
    [cls |-> "Spacing", lazy_evaluation |-> lazy_evaluation,
     pixdim |-> pixdim, src_pixdim |-> src_pixdim, diagonal |-> diagonal,
     mode |-> mode, padding_mode |-> padding_mode,
     align_corners |-> align_corners, dtype |-> dtype]

SpacingCall(self, c) ==
    [pixdim |-> self.pixdim, src_pixdim |-> self.src_pixdim,
     diagonal |-> self.diagonal,
     mode |-> PyOr(c.mode, self.mode),
     padding_mode |-> PyOr(c.padding_mode, self.padding_mode),
     align_corners |-> PyOr(c.align_corners, self.align_corners),
     dtype |-> PyOr(c.dtype, self.dtype)]

Flip(spatial_axis, lazy_evaluation) ==
    [cls |-> "Flip", lazy_evaluation |-> lazy_evaluation,
     spatial_axis |-> spatial_axis]

\* spatial_axis_ = self.spatial_axis = spatial_axis
FlipCall(self, c) == [spatial_axis |-> c.spatial_axis]

FlipSelf(self, c) == [self EXCEPT !.spatial_axis = c.spatial_axis]

Resize(spatial_size, size_mode, mode, align_corners, anti_aliasing, anti_aliasing_sigma, dtype, lazy_evaluation) ==
    [cls |-> "Resize", lazy_evaluation |-> lazy_evaluation,
     spatial_size |-> spatial_size, size_mode |-> size_mode,
     mode |-> Tuple1(mode), align_corners |-> align_corners,
     anti_aliasing |-> anti_aliasing,
     anti_aliasing_sigma |-> anti_aliasing_sigma, dtype |-> dtype]

ResizeCall(self, c) ==
    [spatial_size |-> self.spatial_size, size_mode |-> self.size_mode,
     mode |-> PyOr(c.mode, self.mode),
     align_corners |-> PyOr(c.align_corners, self.align_corners),
     anti_aliasing |-> PyOr(c.anti_aliasing, self.anti_aliasing),
     anti_aliasing_sigma |-> PyOr(c.anti_aliasing_sigma, self.anti_aliasing_sigma),
     dtype |-> self.dtype]

Rotate(angle, keep_size, mode, padding_mode, align_corners, dtype, lazy_evaluation) ==
    [cls |-> "Rotate", lazy_evaluation |-> lazy_evaluation,
     angle |-> angle, keep_size |-> keep_size, mode |-> mode,
     padding_mode |-> padding_mode, align_corners |-> align_corners,
     dtype |-> dtype]

\* angle = self.angle: the angle given to the call is dropped
RotateCall(self, c) ==
    [angle |-> self.angle,
     keep_size |-> self.keep_size,
     mode |-> PyOr(c.mode, self.mode),
     padding_mode |-> PyOr(c.padding_mode, self.padding_mode),
     align_corners |-> PyOr(c.align_corners, self.align_corners),
     dtype |-> self.dtype]

Zoom(factor, mode, padding_mode, align_corners, keep_size, dtype, lazy_evaluation) ==
    [cls |-> "Zoom", lazy_evaluation |-> lazy_evaluation,
     factor |-> factor, mode |-> mode, padding_mode |-> padding_mode,
     align_corners |-> align_corners, keep_size |-> keep_size, dtype |-> dtype]

ZoomCall(self, c) ==
    [factor |-> IF c.factor = NONE THEN self.factor ELSE c.factor,
     mode |-> IF c.mode = NONE THEN self.mode ELSE c.mode,
     padding_mode |-> IF c.padding_mode = NONE THEN self.padding_mode
                      ELSE c.padding_mode,
     align_corners |-> IF c.align_corners = NONE THEN self.align_corners
                       ELSE c.align_corners,
     keep_size |-> self.keep_size,
     dtype |-> self.dtype]

Rotate90(k, spatial_axes, lazy_evaluation) ==
    [cls |-> "Rotate90", lazy_evaluation |-> lazy_evaluation,
     k |-> k, spatial_axes |-> spatial_axes]

Rotate90Call(self, c) ==
    [k |-> PyOr(c.k, self.k),
     spatial_axes |-> PyOr(c.spatial_axes, self.spatial_axes)]

Translate(translation, mode, padding_mode, dtype, lazy_evaluation) ==
    [cls |-> "Translate", lazy_evaluation |-> lazy_evaluation,
     translation |-> translation, mode |-> mode,
     padding_mode |-> padding_mode, dtype |-> dtype]

\* mode = self.mode or mode: the construction-time value comes first
TranslateCall(self, c) ==
    [translation |-> self.translation,
     mode |-> PyOr(self.mode, c.mode),
     padding_mode |-> PyOr(self.padding_mode, c.padding_mode),
     dtype |-> self.dtype]

CropPad(slices, padding_mode, lazy_evaluation) ==
    [cls |-> "CropPad", lazy_evaluation |-> lazy_evaluation,
     slices |-> slices, padding_mode |-> padding_mode]

\* slices_ = slices if self.slices is None else self.slices
CropPadCall(self, c) ==
    [slices |-> IF self.slices = NONE THEN c.slices ELSE self.slices,
     padding_mode |-> self.padding_mode]

\* The arguments a wrapper's __call__ hands to its op builder
\* (functional.spacing, flip, resize, rotate, zoom, rotate90, translate,
\* croppad), shape_override apart
\* A value that is no member of the option tables (GridSampleMode,
\* InterpolateMode, the padding modes, the dtypes)
Unsupported == {"bogus"}

\* self.mode: InterpolateMode = InterpolateMode(mode)  in Zoom.__init__ and
\* Translate.__init__: the enum's constructor raises ValueError for a value
\* that is none of its members.  No other __init__ inspects its arguments.
InitRaises(w) == w.cls \in {"Zoom", "Translate"} /\ w.mode \in Unsupported

BuilderArgs(self, c) ==
    CASE self.cls = "Spacing" -> SpacingCall(self, c)
      [] self.cls = "Flip" -> FlipCall(self, c)
      [] self.cls = "Resize" -> ResizeCall(self, c)
      [] self.cls = "Rotate" -> RotateCall(self, c)
      [] self.cls = "Zoom" -> ZoomCall(self, c)
      [] self.cls = "Rotate90" -> Rotate90Call(self, c)
      [] self.cls = "Translate" -> TranslateCall(self, c)
      [] self.cls = "CropPad" -> CropPadCall(self, c)

\* self after the call: only Flip assigns to self
SelfAfter(self, c) == IF self.cls = "Flip" THEN FlipSelf(self, c) ELSE self

ShapeOverrideAsGiven(shape_override, q) == shape_override

\* shape_override_ = shape_override; when it is None and the image has
\* pending transforms, the hint of the queue's last entry
ShapeOverride(shape_override, q) ==
    IF shape_override = NONE /\ Len(q) > 0
    THEN q[Len(q)].metadata.shape_override
    ELSE shape_override

-----------------------------------------------------------------------------
(* The op builders of functional.py: (matrix increment, metadata) *)

Scale2(f) == <<<<f, 0, 0>>, <<0, f, 0>>, <<0, 0, 1>>>>

\* Angles and k count quarter turns
OpMatrix(cls, args) ==
    CASE cls = "Rotate" -> MatPow(Rot90Matrix, Num(args.angle))
      [] cls = "Rotate90" -> MatPow(Rot90Matrix, Num(args.k))
      [] cls = "Flip" -> FlipMatrix
      [] cls = "Zoom" -> Scale2(Num(args.factor))
      [] cls = "Translate" -> Translate2(Num(args.translation), 0)
      [] cls = "CropPad" -> Translate2(0, 1)
      [] OTHER -> Scale2(2)

Arg(args, f) == IF f \in DOMAIN args THEN args[f] ELSE NONE

OpMetadata(args, shape_override) ==
    Metadata(Arg(args, "mode"), Arg(args, "padding_mode"), NONE,
             Arg(args, "dtype"), shape_override)

\* The builders look their mode, padding_mode and dtype up in the option
\* tables before they build anything
BuilderRejects(args) ==
    \E f \in {"mode", "padding_mode", "dtype"} : Arg(args, f) \in Unsupported

-----------------------------------------------------------------------------
(* array.py: __call__ of the eight deterministic wrappers *)

\* A call that raises before anything is built or pushed
Raises(self, exc, q) ==
    [builder |-> [args |-> <<>>, shape_override |-> NONE],
     entry |-> MetaMatrix(Identity, Metadata(NONE, NONE, NONE, NONE, NONE)),
     queue |-> q,
     apply_called |-> FALSE,
     applied |-> NoOutcome,
     kind |-> "raised", exc |-> exc, value |-> NONE,
     self |-> self]

EagerAlways(self) == TRUE

\* if not self.lazy_evaluation:
Eager(self) == Falsy(self.lazy_evaluation)

\* img_t = apply(img_t): the pending argument is left out
WrapperApplyArg(q) == NoPending

\* What one call self(img, **c) does to an image whose queue is q:
\*   builder   the arguments handed to the op builder
\*   entry     the MetaMatrix pushed
\*   queue     the image's queue after the call
\*   applied   what apply(img_t) did, when it was called
\*   kind, exc, value   how the call ended and what it returned
WrapperCall(self, c, q) ==
    LET args == BuilderArgs(self, c)
        shape_override_ == ShapeOverride(c.shape_override, q)
        entry == MetaMatrix(OpMatrix(self.cls, args),
                            OpMetadata(args, shape_override_))
        pushed == push_pending_transform(q, entry)
        eager == Eager(self)
        ap == IF eager
              THEN apply(ImageShape, pushed, WrapperApplyArg(pushed))
              ELSE NoOutcome
        builder == [args |-> args, shape_override |-> shape_override_]
    IN  IF BuilderRejects(args)
        THEN [Raises(SelfAfter(self, c), "ValueError", q) EXCEPT !.builder = builder]
        ELSE [builder |-> builder,
              entry |-> entry,
              queue |-> pushed,
              apply_called |-> eager,
              applied |-> ap,
              kind |-> IF eager THEN ap.kind ELSE "returned",
              exc |-> IF eager THEN ap.exc ELSE "none",
              value |-> IF eager /\ ap.value # "data" THEN ap.value ELSE "img_t",
              self |-> SelfAfter(self, c)]

-----------------------------------------------------------------------------
(* array.py: the randomized wrappers *)

MaxK == 3

Str(n) == CASE n = 0 -> "0" [] n = 1 -> "1" [] n = 2 -> "2" [] n = 3 -> "3"
            [] OTHER -> "4"

\* RandomizableTransform.__init__(self, prob) leaves self._do_transform True
\* until randomize() has drawn it.
RandRotate90(max_k, spatial_axes, lazy_evaluation) ==
    [cls |-> "RandRotate90", max_k |-> max_k, spatial_axes |-> spatial_axes,
     k |-> "0", do_transform |-> "True",
     op |-> Rotate90("0", spatial_axes, lazy_evaluation)]

\* draw.do: R.rand() < prob;  draw.k: R.randint(max_k) + 1
RandRotate90Randomize(self, draw) ==
    IF ~draw.do
    THEN [self EXCEPT !.do_transform = "False"]
    ELSE [self EXCEPT !.do_transform = "True", !.k = draw.k]

RandRotate(range_x, keep_size, mode, padding_mode, align_corners, dtype, lazy_evaluation) ==
    [cls |-> "RandRotate", range_x |-> range_x, x |-> "0", do_transform |-> "True",
     op |-> Rotate("0", keep_size, mode, padding_mode, align_corners, dtype,
                   lazy_evaluation)]

\* draw.do: R.rand() < prob;  draw.x: R.uniform(range_x[0], range_x[1])
RandRotateRandomize(self, draw) ==
    IF draw.do
    THEN [self EXCEPT !.do_transform = "True", !.x = draw.x]
    ELSE [self EXCEPT !.do_transform = "False", !.x = "0"]

\* RandFlip defines __init__ only
RandFlip(spatial_axis) ==
    [cls |-> "RandFlip", spatial_axis |-> spatial_axis,
     op |-> Flip("0", spatial_axis)]

\* RandFlip(...)(img): the class has no __call__ and no randomize of its own;
\* what is left is the abstract Transform.__call__
RandFlipCall(self, q) == Raises(self, "TypeError", q)

\* t.randomize() for RandRotate90 and RandRotate
randomize(self, draw) ==
    IF self.cls = "RandRotate90"
    THEN RandRotate90Randomize(self, draw)
    ELSE RandRotateRandomize(self, draw)

\* if randomize: self.randomize()
Randomized(self, draw, c) ==
    IF Falsy(c.randomize) THEN self ELSE randomize(self, draw)

\* RandRotate90.__call__(img, randomize=True, shape_override)
RandRotate90Call(self, draw, c, q) ==
    LET drawn == Randomized(self, draw, c)
        k == IF drawn.do_transform = "True" THEN drawn.k ELSE "0"
        r == WrapperCall(drawn.op,
                         [k |-> k, spatial_axes |-> NONE,
                          shape_override |-> c.shape_override], q)
    IN  [r EXCEPT !.self = [drawn EXCEPT !.op = r.self]]

\* RandRotate.__call__(img, mode, padding_mode, align_corners, dtype,
\* randomize=True, shape_override) on an image of two spatial dimensions
RandRotateCall(self, draw, c, q) ==
    LET drawn == Randomized(self, draw, c)
        angle == IF drawn.do_transform = "True" THEN drawn.x ELSE "0"
        r == WrapperCall(drawn.op,
                         [angle |-> angle, mode |-> c.mode,
                          padding_mode |-> c.padding_mode,
                          align_corners |-> c.align_corners,
                          shape_override |-> c.shape_override], q)
    IN  [r EXCEPT !.self = [drawn EXCEPT !.op = r.self]]

\* self(img, ...) for any of the wrappers that define __call__
CallOf(self, draw, c, q) ==
    CASE self.cls = "RandRotate90" -> RandRotate90Call(self, draw, c, q)
      [] self.cls = "RandRotate" -> RandRotateCall(self, draw, c, q)
      [] OTHER -> WrapperCall(self, c, q)

\* The classes of array.py that define inverse
DefinesInverse ==
    {"Spacing", "Rotate", "Zoom", "RandRotate90", "RandRotate", "Translate",
     "CropPad"}

inverseReturnsData(self, q) ==
    [Raises(self, "none", q) EXCEPT !.kind = "returned", !.value = "data"]

\* def inverse(self, data): raise NotImplementedError()
inverse(self, q) == Raises(self, "NotImplementedError", q)

-----------------------------------------------------------------------------
(* utility.py: CachedTransform over a CacheMechanism that retains what is *)
(* stored                                                                  *)

Keys == {"k1", "k2"}
Inputs == {1, 2}
Threads == {1, 2}

\* self.transforms(*args): the wrapped pipeline, a function of its input
transforms(x) == x + 10

EmptyCache == [k \in Keys |-> [present |-> FALSE, value |-> 0]]

\* cache.try_fetch(key) -> (is_present, value)
try_fetch(c, key) == c[key]

\* cache.store(key, value)
store(c, key, value) == [c EXCEPT ![key] = [present |-> TRUE, value |-> value]]

Idle == [pc |-> "idle", key |-> "k1", input |-> 0, result |-> 0]

ReturnsCachedNever(is_present) == FALSE

\* if is_present: return value
ReturnsCached(is_present) == is_present

-----------------------------------------------------------------------------
(* The inputs of the wrappers *)

\* base, and base with one field changed
OneOf(base, choices) ==
    {base} \cup {[base EXCEPT ![ch[1]] = ch[2]] : ch \in choices}

BothModes(S) ==
    {[a EXCEPT !.lazy_evaluation = l] : a \in S, l \in {"True", "False"}}

\* Constructor arguments: the signature's defaults (a fixed value for a
\* parameter that has none), with at most one of the parameters that a call
\* can also give changed, in deferred and in eager mode.
SpacingArgs ==
    BothModes(OneOf(
        [pixdim |-> "2", src_pixdim |-> "1", diagonal |-> "False",
         mode |-> "bilinear", padding_mode |-> "border",
         align_corners |-> "False", dtype |-> "float64",
         lazy_evaluation |-> "False"],
        {<<"mode", "nearest">>, <<"padding_mode", "zeros">>,
         <<"align_corners", "True">>, <<"dtype", "float32">>}))

FlipArgs ==
    BothModes(OneOf([spatial_axis |-> NONE, lazy_evaluation |-> "True"],
                    {<<"spatial_axis", "0">>}))

ResizeArgs ==
    BothModes(OneOf(
        [spatial_size |-> "3", size_mode |-> "all", mode |-> "area",
         align_corners |-> "False", anti_aliasing |-> "False",
         anti_aliasing_sigma |-> NONE, dtype |-> "float32",
         lazy_evaluation |-> "False"],
        {<<"mode", "nearest">>, <<"align_corners", "True">>,
         <<"anti_aliasing", "True">>, <<"anti_aliasing_sigma", "1">>}))

RotateArgs ==
    BothModes(OneOf(
        [angle |-> "1", keep_size |-> "True", mode |-> "bilinear",
         padding_mode |-> "border", align_corners |-> "False",
         dtype |-> "float32", lazy_evaluation |-> "False"],
        {<<"angle", "2">>, <<"mode", "nearest">>, <<"padding_mode", "zeros">>,
         <<"align_corners", "True">>, <<"mode", "bogus">>}))

ZoomArgs ==
    BothModes(OneOf(
        [factor |-> "2", mode |-> "bilinear", padding_mode |-> "edge",
         align_corners |-> NONE, keep_size |-> "True", dtype |-> "float32",
         lazy_evaluation |-> "True"],
        {<<"factor", "3">>, <<"mode", "nearest">>, <<"padding_mode", "zeros">>,
         <<"align_corners", "True">>, <<"mode", "bogus">>,
         <<"padding_mode", "bogus">>}))

Rotate90Args ==
    BothModes(OneOf(
        [k |-> "1", spatial_axes |-> "(0, 1)", lazy_evaluation |-> "True"],
        {<<"k", "2">>, <<"spatial_axes", "(1, 0)">>}))

TranslateArgs ==
    BothModes(OneOf(
        [translation |-> "1", mode |-> "area", padding_mode |-> "edge",
         dtype |-> "float32", lazy_evaluation |-> "True"],
        {<<"mode", "nearest">>, <<"padding_mode", "zeros">>, <<"mode", "bogus">>}))

CropPadArgs ==
    BothModes(OneOf(
        [slices |-> NONE, padding_mode |-> "border", lazy_evaluation |-> "True"],
        {<<"slices", "[0:2]">>}))

Instances ==
    {Spacing(a.pixdim, a.src_pixdim, a.diagonal, a.mode, a.padding_mode,
             a.align_corners, a.dtype, a.lazy_evaluation) : a \in SpacingArgs}
    \cup {Flip(a.spatial_axis, a.lazy_evaluation) : a \in FlipArgs}
    \cup {Resize(a.spatial_size, a.size_mode, a.mode, a.align_corners,
                 a.anti_aliasing, a.anti_aliasing_sigma, a.dtype,
                 a.lazy_evaluation) : a \in ResizeArgs}
    \cup {Rotate(a.angle, a.keep_size, a.mode, a.padding_mode, a.align_corners,
                 a.dtype, a.lazy_evaluation) : a \in RotateArgs}
    \cup {Zoom(a.factor, a.mode, a.padding_mode, a.align_corners, a.keep_size,
               a.dtype, a.lazy_evaluation) : a \in ZoomArgs}
    \cup {Rotate90(a.k, a.spatial_axes, a.lazy_evaluation) : a \in Rotate90Args}
    \cup {Translate(a.translation, a.mode, a.padding_mode, a.dtype,
                    a.lazy_evaluation) : a \in TranslateArgs}
    \cup {CropPad(a.slices, a.padding_mode, a.lazy_evaluation) : a \in CropPadArgs}

RandInstances ==
    {RandRotate90(MaxK, "(0, 1)", l) : l \in {"True", "False"}}
    \cup {RandRotate("(1, 2)", "True", "bilinear", "border", "False", "float32", l) :
            l \in {"True", "False"}}

NoDraw == [do |-> FALSE, k |-> "0", x |-> "0"]

\* A shape-override hint
Hint == "(1, 2, 4)"

\* Call arguments: nothing given, or one argument given
CallArgs(cls) ==
    CASE cls = "Spacing" ->
            OneOf([mode |-> NONE, padding_mode |-> NONE, align_corners |-> NONE,
                   dtype |-> NONE, shape_override |-> NONE],
                  {<<"mode", "nearest">>, <<"mode", "bilinear">>,
                   <<"padding_mode", "zeros">>, <<"padding_mode", "border">>,
                   <<"align_corners", "True">>, <<"align_corners", "False">>,
                   <<"dtype", "float32">>, <<"dtype", "float64">>,
                   <<"shape_override", Hint>>})
      [] cls = "Flip" ->
            OneOf([spatial_axis |-> NONE, shape_override |-> NONE],
                  {<<"spatial_axis", "0">>, <<"spatial_axis", "1">>,
                   <<"shape_override", Hint>>})
      [] cls = "Resize" ->
            OneOf([mode |-> NONE, align_corners |-> NONE, anti_aliasing |-> NONE,
                   anti_aliasing_sigma |-> NONE, shape_override |-> NONE],
                  {<<"mode", "nearest">>, <<"mode", "area">>,
                   <<"align_corners", "True">>, <<"align_corners", "False">>,
                   <<"anti_aliasing", "True">>, <<"anti_aliasing", "False">>,
                   <<"anti_aliasing_sigma", "1">>, <<"anti_aliasing_sigma", "2">>,
                   <<"shape_override", Hint>>})
      [] cls = "RandRotate" ->
            OneOf([mode |-> NONE, padding_mode |-> NONE, align_corners |-> NONE,
                   dtype |-> NONE, randomize |-> "True", shape_override |-> NONE],
                  {<<"mode", "nearest">>, <<"padding_mode", "zeros">>,
                   <<"align_corners", "True">>, <<"dtype", "float64">>,
                   <<"randomize", "False">>, <<"shape_override", Hint>>})
      [] cls = "RandRotate90" ->
            OneOf([randomize |-> "True", shape_override |-> NONE],
                  {<<"randomize", "False">>, <<"shape_override", Hint>>})
      [] cls = "Rotate" ->
            OneOf([angle |-> NONE, mode |-> NONE, padding_mode |-> NONE,
                   align_corners |-> NONE, shape_override |-> NONE],
                  {<<"angle", "0">>, <<"angle", "3">>,
                   <<"mode", "nearest">>, <<"mode", "bilinear">>,
                   <<"mode", "bogus">>,
                   <<"padding_mode", "zeros">>, <<"padding_mode", "border">>,
                   <<"align_corners", "True">>, <<"align_corners", "False">>,
                   <<"shape_override", Hint>>})
      [] cls = "Zoom" ->
            OneOf([factor |-> NONE, mode |-> NONE, padding_mode |-> NONE,
                   align_corners |-> NONE, shape_override |-> NONE],
                  {<<"factor", "1">>, <<"factor", "3">>,
                   <<"mode", "nearest">>, <<"mode", "bilinear">>,
                   <<"padding_mode", "zeros">>, <<"padding_mode", "edge">>,
                   <<"align_corners", "True">>, <<"align_corners", "False">>,
                   <<"shape_override", Hint>>})
      [] cls = "Rotate90" ->
            OneOf([k |-> NONE, spatial_axes |-> NONE, shape_override |-> NONE],
                  {<<"k", "0">>, <<"k", "3">>,
                   <<"spatial_axes", "(0, 1)">>, <<"spatial_axes", "(1, 0)">>,
                   <<"shape_override", Hint>>})
      [] cls = "Translate" ->
            OneOf([mode |-> NONE, padding_mode |-> NONE, shape_override |-> NONE],
                  {<<"mode", "nearest">>, <<"mode", "area">>, <<"mode", "bogus">>,
                   <<"padding_mode", "zeros">>, <<"padding_mode", "edge">>,
                   <<"shape_override", Hint>>})
      [] cls = "CropPad" ->
            OneOf([slices |-> NONE, shape_override |-> NONE],
                  {<<"slices", "[0:2]">>, <<"slices", "[1:3]">>,
                   <<"shape_override", Hint>>})
      [] OTHER -> {}

\* The random source: whether the transform fires, and the value drawn when
\* it does (k for RandRotate90, x for RandRotate)
Draws(cls) ==
    {NoDraw}
    \cup (IF cls = "RandRotate90"
          THEN {[do |-> TRUE, k |-> Str(n), x |-> "0"] : n \in 1..MaxK}
          ELSE {[do |-> TRUE, k |-> "0", x |-> a] : a \in {"1", "2"}})

-----------------------------------------------------------------------------
(* utility.py: MultiSampleTransform *)

Samples == 1..7

\* self.multi_sample: a callable yielding ms.n sub-samples of its input, as a
\* list or as a generator (ms.kind)
MultiSamplers == [kind : {"list", "generator"}, n : 0..MaxSamples]

\* self.multi_sample(t): the sub-samples of t, in yield order
multi_sample(ms, t) == [i \in 1..ms.n |-> t * 10 + i]

\* self.transforms returns a Tensor or a list of Tensors
TransformKinds == {"Tensor", "list"}

MultiSampleTransform(multi_sample_, transforms_) ==
    [multi_sample |-> multi_sample_, transforms |-> transforms_]

\* The state of __call__ before its loop
MultiStart ==
    [raised |-> FALSE, output |-> <<>>, multi_sample_calls |-> <<>>,
     transforms_calls |-> <<>>]

\* The body of  for mt in self.multi_sample(t)  (lines 90-97)
MultiBody(self, m, mt) ==
    LET mt_out == multi_sample(self.multi_sample, mt)
        called_ == [m EXCEPT !.multi_sample_calls = Append(@, mt)]
    IN  IF self.multi_sample.kind = "list"
        THEN [called_ EXCEPT !.output = @ \o mt_out]
        ELSE \* a generator is neither a Tensor nor a list
             [called_ EXCEPT !.raised = TRUE]

RECURSIVE MultiLoop(_, _, _)
MultiLoop(self, m, subs) ==
    IF subs = <<>> \/ m.raised
    THEN m
    ELSE MultiLoop(self, MultiBody(self, m, Head(subs)), Tail(subs))

\* MultiSampleTransform.__call__(t)
MultiSampleCall(self, t) ==
    LET m == MultiLoop(self,
                       [MultiStart EXCEPT !.multi_sample_calls = <<t>>],
                       multi_sample(self.multi_sample, t))
    IN  [kind |-> IF m.raised THEN "raised" ELSE "returned",
         exc |-> IF m.raised THEN "ValueError" ELSE "none",
         output |-> IF m.raised THEN <<>> ELSE m.output,
         multi_sample_calls |-> m.multi_sample_calls,
         transforms_calls |-> m.transforms_calls]

NotSampled ==
    [op |-> "none", self |-> MultiSampleTransform([kind |-> "list", n |-> 0], "Tensor"),
     t |-> 0, result |-> MultiSampleCall(MultiSampleTransform([kind |-> "list", n |-> 0], "Tensor"), 0)]

-----------------------------------------------------------------------------
(* apply.py: the helper functions called on their own *)

NoPure == [fn |-> "none"]

\* Corner coordinates given to shape_from_extents are counted in halves, so
\* that torch.ceil has fractions to round: the value n stands for n / 2
Half == 2

\* torch.ceil of n / Half
ceil(n) == -((-n) \div Half)

Min(S) == CHOOSE x \in S : \A y \in S : x <= y
Max(S) == CHOOSE x \in S : \A y \in S : x >= y

Returned(value) == [kind |-> "returned", exc |-> "none", value |-> value]
Raised(exc) == [kind |-> "raised", exc |-> exc, value |-> <<>>]

shape_from_extents_floor(src_shape, extents) ==
    IF Len(extents) = 0
    THEN Raised("IndexError")
    ELSE LET n == Len(extents[1])
             column(i) == {extents[k][i] : k \in 1..Len(extents)}
         IN  Returned(<<src_shape[1]>>
                      \o [i \in 1..(n - 1) |-> (Max(column(i)) - Min(column(i))) \div Half])

\* shape_from_extents(src_shape, extents): extents a list of arrays or an
\* array of rows; an empty one has no first element and no minimum
shape_from_extents(src_shape, extents) ==
    IF Len(extents) = 0
    THEN Raised("IndexError")
    ELSE LET n == Len(extents[1])
             column(i) == {extents[k][i] : k \in 1..Len(extents)}
             mins == [i \in 1..n |-> Min(column(i))]
             maxes == [i \in 1..n |-> Max(column(i))]
             values == [i \in 1..(n - 1) |-> ceil(maxes[i] - mins[i])]
         IN  Returned(<<src_shape[1]>> \o values)

\* Shapes: a leading (channel) axis and one to three spatial axes
Sizes == 1..3
Shapes ==
    UNION {[1..n -> Sizes] : n \in 2..4}

\* Homogeneous corners of one or two spatial dimensions, in halves
Corners ==
    {<<x, Half>> : x \in {-3, 0, 2}}
    \cup {<<-3, 0, Half>>, <<0, 1, Half>>, <<4, 0, Half>>, <<4, 1, Half>>}

RECURSIVE CornerLists(_, _)
CornerLists(n, len) ==
    IF len = 0 THEN {<<>>}
    ELSE {<<c>> \o rest : c \in {c \in Corners : Len(c) = n},
                          rest \in CornerLists(n, len - 1)}

Extents == UNION {CornerLists(n, len) : n \in 2..3, len \in 0..MaxCorners}

\* The values a metadata field takes
MetadataValues == Modes \cup PaddingModes \cup Devices \cup Dtypes

-----------------------------------------------------------------------------
(* apply.py: apply, statement by statement, on two images at once *)

\* The activations of apply, one per image
Runs == {1, 2}

NotRunning == [pc |-> "idle"]

\* The entries pushed to the two images: a quarter turn, a shift whose
\* metadata is compatible with the turn's, and a shift whose mode conflicts
\* with the turn's.  The turn commutes with neither shift.
RunEntries ==
    {MetaMatrix(Rot90Matrix, Metadata("nearest", "border", NONE, NONE, NONE)),
     MetaMatrix(Translate2(0, 1), Metadata(NONE, "border", NONE, NONE, NONE)),
     MetaMatrix(Translate2(1, 0), Metadata("bilinear", NONE, NONE, NONE, NONE))}

\* Whether the resampler works or raises when it is called
Resamplers == {"works", "raises"}

OwnShared(t) == 1

\* The activation whose local variables the statements of run t read and
\* write: cumulative_matrix, cumulative_extents, cur_*, kwargs and data are
\* locals of apply
Own(t) == t

\* An activation that has ended
Ended(f, kind, exc, value) ==
    [f EXCEPT !.pc = "done", !.kind = kind, !.exc = exc, !.value = value]

\* Lines 94-119: the test of len(pending) and the set-up of the locals
Enter(shape, q, pending, affine) ==
    LET f == [pc |-> "loop", pending |-> pending, affine |-> affine,
              queue_before |-> q, i |-> 0, overlapped |-> FALSE,
              st |-> ApplyStart(shape),
              kind |-> "none", exc |-> "none", value |-> NONE]
    IN  IF ~pending.given
        THEN Ended(f, "raised", "TypeError", NONE)
        ELSE IF Len(pending.value) = 0
        THEN Ended(f, "returned", "none", "data")
        ELSE f

\* Lines 121-160: one iteration of the loop, over the entry at position
\* f.i + 1 of the image's queue.  A resample call that raises ends apply.
Iterate(f, q) ==
    LET meta_matrix == q[f.i + 1]
        st == LoopBody(f.st, meta_matrix)
    IN  IF Incompatible(f.st, meta_matrix) /\ f.affine = "raises"
        THEN Ended([f EXCEPT !.st = [st EXCEPT !.data = f.st.data,
                                               !.cur_mode = f.st.cur_mode,
                                               !.cur_padding_mode = f.st.cur_padding_mode,
                                               !.cur_device = f.st.cur_device,
                                               !.cur_dtype = f.st.cur_dtype]],
                   "raised", "AffineError", NONE)
        ELSE [f EXCEPT !.st = st, !.i = f.i + 1]

ClearedAlways(kind) == TRUE

\* data.clear_pending_transforms() is the last statement (line 172): it is
\* reached only when nothing before it has raised
Cleared(kind) == kind = "returned"

\* Lines 166-172: the last resample call and clear_pending_transforms().
\* cleared tells whether the image's queue is emptied.
Finish(f) ==
    IF ~f.st.kwargs.bound
    THEN [frame |-> Ended(f, "raised", "NameError", NONE),
          cleared |-> Cleared("raised")]
    ELSE LET call == AffineCall(f.st.cumulative_matrix, f.st.kwargs)
             called_ == [f EXCEPT !.st.calls = Append(@, call)]
         IN  IF f.affine = "raises"
             THEN [frame |-> Ended(called_, "raised", "AffineError", NONE),
                   cleared |-> Cleared("raised")]
             ELSE [frame |-> Ended([called_ EXCEPT !.st.data = "resampled"],
                                   "returned", "none", NONE),
                   cleared |-> Cleared("returned")]

-----------------------------------------------------------------------------
(* The state machine *)

NotApplied ==
    [op |-> "none", pending |-> NoPending, queue_before |-> <<>>,
     outcome |-> NoOutcome]

NoInstance == [cls |-> "none"]

NotCalled ==
    [op |-> "none", self |-> NoInstance, args |-> <<>>, draw |-> NoDraw,
     draws |-> 0, queue_before |-> <<>>, built |-> <<>>,
     result |-> Raises(NoInstance, "none", <<>>)]

Init ==
    /\ pending_transforms = <<>>
    /\ applied = NotApplied
    /\ inst = NoInstance
    /\ called = NotCalled
    /\ cache = EmptyCache
    /\ thread = [t \in Threads |-> Idle]
    /\ runs = [k \in Keys |-> 0]
    /\ finished = <<>>
    /\ multi = NotSampled
    /\ pure = NoPure
    /\ images = [t \in Runs |-> <<>>]
    /\ frames = [t \in Runs |-> NotRunning]

(* The apply engine on one image *)

PushPending(entry) ==
    /\ Len(pending_transforms) < MaxQueue
    /\ pending_transforms' = push_pending_transform(pending_transforms, entry)
    /\ applied' = NotApplied
    /\ UNCHANGED <<wrapVars, cacheVars, utilVars, runVars>>

\* apply(img, pending) / apply(img)
Apply(pending) ==
    /\ applied' = [op |-> "apply", pending |-> pending,
                   queue_before |-> pending_transforms,
                   outcome |-> apply(ImageShape, pending_transforms, pending)]
    /\ UNCHANGED <<pending_transforms, wrapVars, cacheVars, utilVars, runVars>>

Next ==
    \/ \E entry \in PendingEntries : PushPending(entry)
    \/ \E pending \in PendingArgs(pending_transforms) : Apply(pending)

Spec == Init /\ [][Next]_vars

(* One wrapper instance called repeatedly on a fresh image *)

\* What a wrapper call leaves behind: the image's queue, self, and the record
\* of the call and of the apply it made; built lists the entries the calls on
\* this image have built, in call order
Called(self, c, draw, draws, r) ==
    /\ pending_transforms' = r.queue
    /\ inst' = r.self
    /\ called' = [op |-> "call", self |-> self, args |-> c, draw |-> draw,
                  draws |-> draws, queue_before |-> pending_transforms,
                  built |-> IF r.queue = pending_transforms
                            THEN called.built
                            ELSE Append(called.built, r.entry),
                  result |-> r]
    /\ applied' = IF r.apply_called
                  THEN [op |-> "apply", pending |-> NoPending,
                        queue_before |-> r.queue, outcome |-> r.applied]
                  ELSE NotApplied
    /\ UNCHANGED <<cacheVars, utilVars, runVars>>

\* w = Rotate(...), Zoom(...), ...; img = a new image.  A run follows one
\* wrapper and one image: constructing again would only start the run anew.
Construct(w) ==
    /\ inst = NoInstance
    /\ IF InitRaises(w)
       THEN /\ inst' = NoInstance
            /\ called' = [NotCalled EXCEPT
                             !.op = "construct", !.self = w,
                             !.result = Raises(NoInstance, "ValueError", <<>>)]
       ELSE /\ inst' = w
            /\ called' = NotCalled
    /\ pending_transforms' = <<>>
    /\ applied' = NotApplied
    /\ UNCHANGED <<cacheVars, utilVars, runVars>>

\* w(img, **c) for one of the eight deterministic wrappers
Call(c) ==
    /\ inst.cls \in {"Spacing", "Flip", "Resize", "Rotate", "Zoom", "Rotate90",
                     "Translate", "CropPad"}
    /\ Len(pending_transforms) < MaxCalls
    /\ Called(inst, c, NoDraw, 0, CallOf(inst, NoDraw, c, pending_transforms))

\* w(img, randomize, **c) for RandRotate90 and RandRotate: randomize() runs
\* once, at the top of __call__, unless randomize is given as False; then
\* nothing is drawn and the call uses what self holds
RandCall(draw, c) ==
    /\ inst.cls \in {"RandRotate90", "RandRotate"}
    /\ Len(pending_transforms) < MaxCalls
    /\ IF Falsy(c.randomize)
       THEN Called(inst, c, NoDraw, 0, CallOf(inst, NoDraw, c, pending_transforms))
       ELSE Called(inst, c, draw, 1, CallOf(inst, draw, c, pending_transforms))

\* w.randomize() for RandRotate90 and RandRotate, called on its own
Randomize(draw) ==
    /\ inst.cls \in {"RandRotate90", "RandRotate"}
    /\ inst' = randomize(inst, draw)
    /\ called' = [op |-> "randomize", self |-> inst, args |-> <<>>,
                  draw |-> draw, draws |-> 1,
                  queue_before |-> pending_transforms,
                  built |-> called.built,
                  result |-> [Raises(randomize(inst, draw), "none", pending_transforms)
                                 EXCEPT !.kind = "returned"]]
    /\ UNCHANGED <<pending_transforms, applied, cacheVars, utilVars, runVars>>

\* RandFlip(prob, spatial_axis)(img)
RandFlipUse(spatial_axis) ==
    /\ Len(pending_transforms) < MaxCalls
    /\ LET self == RandFlip(spatial_axis)
           r == RandFlipCall(self, pending_transforms)
       IN  Called(self, <<>>, NoDraw, 0, [r EXCEPT !.self = inst])

\* w.inverse(img)
Inverse ==
    /\ inst.cls \in DefinesInverse
    /\ LET r == inverse(inst, pending_transforms)
       IN  /\ pending_transforms' = r.queue
           /\ inst' = r.self
           /\ called' = [op |-> "inverse", self |-> inst, args |-> <<>>,
                         draw |-> NoDraw, draws |-> 0,
                         queue_before |-> pending_transforms,
                         built |-> called.built, result |-> r]
    /\ UNCHANGED <<applied, cacheVars, utilVars, runVars>>

WrapNext ==
    \/ \E w \in Instances \cup RandInstances : Construct(w)
    \/ \E c \in CallArgs(inst.cls) : Call(c)
    \/ \E draw \in Draws(inst.cls) : \E c \in CallArgs(inst.cls) : RandCall(draw, c)
    \/ \E draw \in Draws(inst.cls) : Randomize(draw)
    \/ \E spatial_axis \in {NONE, "0"} : RandFlipUse(spatial_axis)
    \/ Inverse
    \/ Apply(NoPending)

WrapSpec == Init /\ [][WrapNext]_vars

(* CachedTransform called from two threads *)

InFlight == {t \in Threads : thread[t].pc # "idle"}

\* cached(key, x) is entered
CacheBegin(t, key, x) ==
    /\ thread[t].pc = "idle"
    /\ Len(finished) + Cardinality(InFlight) < MaxCached
    /\ thread' = [thread EXCEPT ![t] =
                     [pc |-> "try_fetch", key |-> key, input |-> x, result |-> 0]]
    /\ UNCHANGED <<cache, runs, finished, engineVars, wrapVars, utilVars, runVars>>

\* is_present, value = self.cache.try_fetch(key); if is_present: return value
TryFetch(t) ==
    /\ thread[t].pc = "try_fetch"
    /\ LET f == try_fetch(cache, thread[t].key)
       IN  IF ReturnsCached(f.present)
           THEN /\ finished' = Append(finished,
                                      [key |-> thread[t].key,
                                       input |-> thread[t].input,
                                       ran |-> FALSE, value |-> f.value])
                /\ thread' = [thread EXCEPT ![t] = Idle]
           ELSE /\ thread' = [thread EXCEPT ![t].pc = "transforms"]
                /\ UNCHANGED finished
    /\ UNCHANGED <<cache, runs, engineVars, wrapVars, utilVars, runVars>>

\* result = self.transforms(*args, **kwargs)
RunTransforms(t) ==
    /\ thread[t].pc = "transforms"
    /\ thread' = [thread EXCEPT ![t].pc = "store",
                                ![t].result = transforms(thread[t].input)]
    /\ runs' = [runs EXCEPT ![thread[t].key] = @ + 1]
    /\ UNCHANGED <<cache, finished, engineVars, wrapVars, utilVars, runVars>>

\* self.cache.store(key, result); return result
Store(t) ==
    /\ thread[t].pc = "store"
    /\ cache' = store(cache, thread[t].key, thread[t].result)
    /\ finished' = Append(finished,
                          [key |-> thread[t].key, input |-> thread[t].input,
                           ran |-> TRUE, value |-> thread[t].result])
    /\ thread' = [thread EXCEPT ![t] = Idle]
    /\ UNCHANGED <<runs, engineVars, wrapVars, utilVars, runVars>>

CacheNext ==
    \E t \in Threads :
        \/ \E key \in Keys : \E x \in Inputs : CacheBegin(t, key, x)
        \/ TryFetch(t)
        \/ RunTransforms(t)
        \/ Store(t)

CacheSpec == Init /\ [][CacheNext]_vars

(* CachedTransform called again only after the call before has returned *)

SeqBegin(t, key, x) ==
    /\ InFlight = {}
    /\ CacheBegin(t, key, x)

CacheSeqNext ==
    \E t \in Threads :
        \/ \E key \in Keys : \E x \in Inputs : SeqBegin(t, key, x)
        \/ TryFetch(t)
        \/ RunTransforms(t)
        \/ Store(t)

CacheSeqSpec == Init /\ [][CacheSeqNext]_vars

-----------------------------------------------------------------------------
(* MultiSampleTransform called on one input *)

MultiCall(self, t) ==
    /\ multi' = [op |-> "call", self |-> self, t |-> t,
                 result |-> MultiSampleCall(self, t)]
    /\ UNCHANGED <<engineVars, wrapVars, cacheVars, pure, runVars>>

MultiNext ==
    \E ms \in MultiSamplers : \E tk \in TransformKinds : \E t \in Samples :
        MultiCall(MultiSampleTransform(ms, tk), t)

MultiSpec == Init /\ [][MultiNext]_vars

-----------------------------------------------------------------------------
(* The helper functions of apply.py.  A run is one call of one of them on  *)
(* some input: they keep no state from one call to the next.               *)

ExtentsFromShape(shape) ==
    /\ pure = NoPure
    /\ pure' = [fn |-> "extents_from_shape", shape |-> shape,
                result |-> extents_from_shape(shape)]
    /\ UNCHANGED <<engineVars, wrapVars, cacheVars, multi, runVars>>

ShapeFromExtents(src_shape, extents) ==
    /\ pure = NoPure
    /\ pure' = [fn |-> "shape_from_extents", src_shape |-> src_shape,
                extents |-> extents,
                result |-> shape_from_extents(src_shape, extents)]
    /\ UNCHANGED <<engineVars, wrapVars, cacheVars, multi, runVars>>

MetadataIsCompatible(value_1, value_2) ==
    /\ pure = NoPure
    /\ pure' = [fn |-> "metadata_is_compatible", value_1 |-> value_1,
                value_2 |-> value_2,
                result |-> metadata_is_compatible(value_1, value_2)]
    /\ UNCHANGED <<engineVars, wrapVars, cacheVars, multi, runVars>>

PureNext ==
    \/ \E shape \in Shapes : ExtentsFromShape(shape)
    \/ \E src_shape \in {<<1, 4, 2>>, <<3, 4, 2>>} : \E extents \in Extents :
          ShapeFromExtents(src_shape, extents)
    \/ \E value_1 \in MetadataValues : \E value_2 \in MetadataValues :
          MetadataIsCompatible(value_1, value_2)

PureSpec == Init /\ [][PureNext]_vars

-----------------------------------------------------------------------------
(* Two threads, each calling apply on an image of its own *)

\* img.push_pending_transform(entry), before the applies start
RunPush(t, entry) ==
    /\ \A u \in Runs : frames[u].pc = "idle"
    /\ Len(images[t]) < MaxPending
    /\ images' = [images EXCEPT ![t] = push_pending_transform(images[t], entry)]
    /\ UNCHANGED <<frames, engineVars, wrapVars, cacheVars, utilVars>>

\* Whether some other activation is inside its loop
OthersRunning(t) == \E u \in Runs \ {t} : frames[u].pc = "loop"

\* f, marked as having taken a step while another activation was running
Stepped(f, t) == [f EXCEPT !.overlapped = @ \/ OthersRunning(t)]

\* Thread t calls apply(image t, pending) / apply(image t)
RunEnter(t, pending, affine) ==
    /\ frames[Own(t)].pc = "idle"
    /\ frames' = [frames EXCEPT ![Own(t)] = Enter(ImageShape, images[t], pending, affine)]
    /\ UNCHANGED <<images, engineVars, wrapVars, cacheVars, utilVars>>

\* for meta_matrix in pending_: the next entry of the image's queue
RunIterate(t) ==
    /\ frames[Own(t)].pc = "loop"
    /\ frames[Own(t)].i < Len(images[t])
    /\ frames' = [frames EXCEPT ![Own(t)] = Stepped(Iterate(frames[Own(t)], images[t]), t)]
    /\ UNCHANGED <<images, engineVars, wrapVars, cacheVars, utilVars>>

\* The loop is exhausted: the statements after it
RunFinish(t) ==
    /\ frames[Own(t)].pc = "loop"
    /\ frames[Own(t)].i >= Len(images[t])
    /\ LET r == Finish(frames[Own(t)])
       IN  /\ frames' = [frames EXCEPT ![Own(t)] = Stepped(r.frame, t)]
           /\ images' = IF r.cleared THEN [images EXCEPT ![t] = <<>>] ELSE images
    /\ UNCHANGED <<engineVars, wrapVars, cacheVars, utilVars>>

RunNext ==
    \E t \in Runs :
        \/ \E entry \in RunEntries : RunPush(t, entry)
        \/ \E pending \in {NoPending, Pending(<<>>), Pending(images[t])} :
              \E affine \in Resamplers : RunEnter(t, pending, affine)
        \/ RunIterate(t)
        \/ RunFinish(t)

RunSpec == Init /\ [][RunNext]_vars

-----------------------------------------------------------------------------
(* Properties of the apply engine *)

MetadataFields == {"mode", "padding_mode", "device", "dtype"}

\* Two set values of one field that differ
Conflict(md1, md2) ==
    \E f \in MetadataFields : md1[f] # NONE /\ md2[f] # NONE /\ md1[f] # md2[f]

MutuallyCompatible(q) ==
    \A i, j \in 1..Len(q) : ~Conflict(q[i].metadata, q[j].metadata)

\* Accumulated fields still unset are filled from the entry
Merged(acc, md) ==
    [f \in MetadataFields |-> IF acc[f] = NONE THEN md[f] ELSE acc[f]]

Adopted(md) == [f \in MetadataFields |-> md[f]]

Unset == [f \in MetadataFields |-> NONE]

\* The metadata accumulated strictly before each incompatibility boundary of
\* a queue, in queue order
RECURSIVE BoundaryMetadata(_, _)
BoundaryMetadata(acc, q) ==
    IF q = <<>>
    THEN <<>>
    ELSE IF Conflict(acc, Head(q).metadata)
    THEN <<acc>> \o BoundaryMetadata(Adopted(Head(q).metadata), Tail(q))
    ELSE BoundaryMetadata(Merged(acc, Head(q).metadata), Tail(q))

Boundaries(q) == BoundaryMetadata(Unset, q)

AppliedTo(q) == applied.op = "apply" /\ applied.queue_before = q

\* C1: apply on a queue of N >= 1 mutually compatible entries makes exactly
\* one resample (Affine) call.
C1_CompatibleQueueResampledOnce ==
    (/\ applied.op = "apply"
     /\ Len(applied.queue_before) >= 1
     /\ MutuallyCompatible(applied.queue_before))
        => Len(applied.outcome.calls) = 1

\* C2: apply on a queue with k >= 1 incompatibility boundaries makes exactly
\* k + 1 resample calls, the i-th of them with the metadata accumulated
\* strictly before the i-th boundary.
C2_BoundariesPlusOneResamples ==
    LET bs == Boundaries(applied.queue_before)
        calls == applied.outcome.calls
    IN  (applied.op = "apply" /\ Len(bs) >= 1)
            => /\ Len(calls) = Len(bs) + 1
               /\ \A i \in 1..Len(bs) :
                    \A f \in MetadataFields : calls[i].kwargs[f] = bs[i][f]

\* C3: apply on an image whose queue is empty returns the input object
\* itself, makes no resample call and leaves the queue empty.
C3_EmptyQueueIsNoOp ==
    (applied.op = "apply" /\ applied.queue_before = <<>>)
        => /\ applied.outcome.kind = "returned"
           /\ applied.outcome.value = "data"
           /\ applied.outcome.calls = <<>>
           /\ applied.outcome.queue = <<>>
           /\ pending_transforms = <<>>

\* C6: once apply has completed on an image with a non-empty queue, the
\* queue of the resulting image is empty, and applying again resamples
\* nothing.
C6_QueueEmptyAfterApply ==
    (/\ applied.op = "apply"
     /\ Len(applied.queue_before) >= 1
     /\ applied.outcome.kind = "returned")
        => /\ applied.outcome.queue = <<>>
           /\ \A pending \in PendingArgs(applied.outcome.queue) :
                apply(ImageShape, applied.outcome.queue, pending).calls = <<>>

-----------------------------------------------------------------------------
(* Properties of the wrappers *)

Deterministic ==
    {"Spacing", "Flip", "Resize", "Rotate", "Zoom", "Rotate90", "Translate",
     "CropPad"}

\* The wrappers that take lazy_evaluation
Lazy == Deterministic \cup {"RandRotate90", "RandRotate"}

LazyEvaluation(self) ==
    IF self.cls \in Deterministic THEN self.lazy_evaluation
    ELSE self.op.lazy_evaluation

IsDeferred(self) == self.cls \in Lazy /\ ~Falsy(LazyEvaluation(self))
IsEager(self) == self.cls \in Lazy /\ Falsy(LazyEvaluation(self))

\* An unsupported value among the resampling metadata of a wrapper or of a
\* call's arguments
UnsupportedGiven(rec) ==
    \E f \in {"mode", "padding_mode", "dtype"} \cap DOMAIN rec :
        rec[f] \in Unsupported

\* C4: in deferred mode a wrapper call (with supported metadata values, see
\* C14 for the others) appends exactly one entry at the end of the queue,
\* leaves the earlier entries as they were, returns the image without
\* calling apply (no resample call), and after m such calls on a fresh image
\* the queue holds the m entries built, in call order.
C4_DeferredCallOnlyAppends ==
    (called.op = "call" /\ IsDeferred(called.self)
       /\ ~UnsupportedGiven(called.self) /\ ~UnsupportedGiven(called.args))
        => /\ called.result.kind = "returned"
           /\ called.result.value = "img_t"
           /\ pending_transforms = Append(called.queue_before, called.result.entry)
           /\ ~called.result.apply_called
           /\ called.result.applied.calls = <<>>
           /\ pending_transforms = called.built

C4_TwoDeferredCalls ==
    /\ called.op = "call"
    /\ IsDeferred(called.self)
    /\ Len(pending_transforms) = 2
    /\ pending_transforms[1] # pending_transforms[2]
    /\ pending_transforms[2] = called.result.entry

\* The same wrapper configured for deferred evaluation
DeferredTwin(self) ==
    IF self.cls \in Deterministic
    THEN [self EXCEPT !.lazy_evaluation = "True"]
    ELSE [self EXCEPT !.op.lazy_evaluation = "True"]

\* C5: on an image with an empty queue, an eager wrapper call (with
\* supported metadata values, see C14 for the others) pushes one entry,
\* calls apply at once and returns a result, the one that the deferred call
\* followed by apply on the image it returns gives, whether that apply is
\* called as apply(img) or as apply(img, img.pending_transforms).
C5_EagerIsDeferredThenApply ==
    (called.op = "call" /\ IsEager(called.self) /\ called.queue_before = <<>>
       /\ ~UnsupportedGiven(called.self) /\ ~UnsupportedGiven(called.args))
        => LET d == CallOf(DeferredTwin(called.self), called.draw, called.args, <<>>)
           IN  /\ called.result.apply_called
               /\ called.built = <<called.result.entry>>
               /\ called.result.kind = "returned"
               /\ \A pending \in {NoPending, Pending(d.queue)} :
                     LET ap == apply(ImageShape, d.queue, pending)
                     IN  /\ called.result.kind = ap.kind
                         /\ called.result.exc = ap.exc
                         /\ called.result.value = ap.value
                         /\ called.result.applied.calls = ap.calls

\* C7: a value given at call time for a parameter that also has a
\* construction-time value is the value handed to the op builder.
C7_CallTimeValueOverrides ==
    (called.op = "call" /\ called.self.cls \in Deterministic)
        => \A f \in (DOMAIN called.args) \cap (DOMAIN called.result.builder.args) :
              called.args[f] # NONE
                  => called.result.builder.args[f] = called.args[f]

\* C8: a call of RandRotate, RandRotate90 or RandFlip with randomize enabled
\* draws once and pushes exactly one entry, built from the parameters drawn
\* when the transform fires and from identity parameters when it does not.
C8_RandomizedCallPushesDrawn ==
    (/\ called.op = "call"
     /\ called.self.cls \in {"RandRotate90", "RandRotate", "RandFlip"}
     /\ called.self.cls = "RandFlip" \/ ~Falsy(called.args.randomize))
        => /\ called.draws = 1
           /\ pending_transforms = Append(called.queue_before, called.result.entry)
           /\ called.self.cls = "RandRotate90"
                => called.result.builder.args.k =
                      (IF called.draw.do THEN called.draw.k ELSE "0")
           /\ called.self.cls = "RandRotate"
                => called.result.builder.args.angle =
                      (IF called.draw.do THEN called.draw.x ELSE "0")

\* C12: inverse called on Spacing, Rotate, Zoom, Translate, CropPad,
\* RandRotate or RandRotate90 raises NotImplementedError, returns nothing,
\* calls no apply and leaves the image's pending queue and the wrapper as
\* they were.
C12_InverseNotSupported ==
    called.op = "inverse"
        => /\ called.result.kind = "raised"
           /\ called.result.exc = "NotImplementedError"
           /\ called.result.value = NONE
           /\ ~called.result.apply_called
           /\ pending_transforms = called.queue_before
           /\ inst = called.self

C12_InverseCalledWithPending ==
    /\ called.op = "inverse"
    /\ called.self.cls \in {"Rotate", "RandRotate90", "CropPad"}
    /\ Len(pending_transforms) >= 1
    /\ called.result.exc = "NotImplementedError"

\* C14: a wrapper constructed or called with an unsupported mode,
\* padding_mode or dtype raises a configuration error no later than that
\* call, before an entry is pushed and before apply runs: Zoom and Translate
\* already at construction (for mode), every wrapper at the call.
C14_UnsupportedMetadataRejected ==
    /\ (called.op = "construct" /\ called.self.cls \in {"Zoom", "Translate"}
          /\ called.self.mode \in Unsupported)
           => called.result.kind = "raised" /\ inst = NoInstance
    /\ \A cls \in {"Zoom", "Translate"} : inst.cls = cls => inst.mode \notin Unsupported
    /\ (called.op = "call" /\ called.self.cls \in Deterministic
          /\ (UnsupportedGiven(called.self) \/ UnsupportedGiven(called.args)))
           => /\ called.result.kind = "raised"
              /\ called.result.exc = "ValueError"
              /\ pending_transforms = called.queue_before
              /\ ~called.result.apply_called


\* C28: in every wrapper call the op builder is handed the call's
\* shape_override when one is given, and otherwise the shape_override
\* recorded in the image's last pending entry when there is one; the
\* entries the queue held before the call are still there, unchanged.
C28_ShapeOverrideGivenOrLastHint ==
    (called.op = "call" /\ called.self.cls # "RandFlip")
        => LET q == called.queue_before
               given == called.args.shape_override
           IN  /\ called.result.builder.shape_override =
                     IF given # NONE THEN given
                     ELSE IF Len(q) > 0 THEN q[Len(q)].metadata.shape_override
                     ELSE NONE
               /\ Len(pending_transforms) >= Len(q)
               /\ SubSeq(pending_transforms, 1, Len(q)) = q

C28_HintReadFromLastEntry ==
    /\ called.op = "call"
    /\ called.self.cls # "RandFlip"
    /\ called.args.shape_override = NONE
    /\ Len(called.queue_before) >= 1
    /\ called.queue_before[Len(called.queue_before)].metadata.shape_override = Hint
    /\ called.result.builder.shape_override = Hint
    /\ Len(pending_transforms) = Len(called.queue_before) + 1

\* C29: a parameter that a wrapper call does not supply resolves to the
\* value given to the constructor: the call leaves the stored defaults as
\* they were, and the stored default is the constructor's argument.
C29_OmittedParameterIsConstructorValue ==
    (called.op = "call" /\ called.self.cls \in {"Spacing", "Flip", "Resize", "Rotate", "Zoom", "Rotate90", "Translate", "CropPad"})
        => LET self == called.self
               c == called.args
               args == called.result.builder.args
           IN  /\ called.result.self = self
               /\ \A f \in DOMAIN args :
                    (f \in DOMAIN c /\ c[f] = NONE) => args[f] = self[f]
               /\ self.cls = "Resize" => self.mode \in {a.mode : a \in ResizeArgs}
-----------------------------------------------------------------------------
(* Properties of CachedTransform *)

\* C9: two concurrent calls with the same key perform the wrapped
\* computation once: the transforms run at most once per key, and of two
\* calls with the same key only the first to return has run them.
C9_ConcurrentSameKeyComputedOnce ==
    /\ \A k \in Keys : runs[k] <= 1
    /\ \A i \in 1..Len(finished) : \A j \in 1..(i - 1) :
          finished[j].key = finished[i].key => ~finished[i].ran

\* C10: when each call starts after the one before has returned, the
\* transforms run exactly once per key, on the first call for the key, which
\* stores and returns their result; every later call for the key returns the
\* stored value without running them.
C10_SequentialCallsRunOncePerKey ==
    /\ \A k \in Keys : runs[k] <= 1
    /\ \A i \in 1..Len(finished) :
          LET call == finished[i]
              earlier == {j \in 1..(i - 1) : finished[j].key = call.key}
              first == CHOOSE j \in earlier : \A l \in earlier : j <= l
          IN  /\ runs[call.key] = 1
              /\ cache[call.key].present
              /\ IF earlier = {}
                 THEN /\ call.ran
                      /\ call.value = transforms(call.input)
                      /\ cache[call.key].value = call.value
                 ELSE /\ ~call.ran
                      /\ call.value = finished[first].value
                      /\ call.value = cache[call.key].value

C10_SecondCallServedFromCache ==
    /\ Len(finished) >= 2
    /\ finished[1].key = finished[2].key
    /\ finished[1].input # finished[2].input
    /\ finished[1].ran
    /\ ~finished[2].ran
    /\ finished[2].value = transforms(finished[1].input)

-----------------------------------------------------------------------------
(* Properties of MultiSampleTransform *)

\* What self.transforms returns for a sub-sample, as the items it adds to the
\* output
Downstream(kind, mt) ==
    IF kind = "Tensor" THEN <<transforms(mt)>> ELSE <<transforms(mt), transforms(mt) + 1>>

RECURSIVE Concatenated(_, _)
Concatenated(kind, subs) ==
    IF subs = <<>> THEN <<>>
    ELSE Downstream(kind, Head(subs)) \o Concatenated(kind, Tail(subs))

\* C11: a MultiSampleTransform call applies self.transforms exactly once to
\* each sub-sample that multi_sample yields for the input, in yield order,
\* and returns the results concatenated in that order.
C11_TransformsEachSubSampleOnce ==
    multi.op = "call"
        => LET subs == multi_sample(multi.self.multi_sample, multi.t)
           IN  /\ multi.result.kind = "returned"
               /\ multi.result.transforms_calls = subs
               /\ multi.result.output = Concatenated(multi.self.transforms, subs)

-----------------------------------------------------------------------------
(* Properties of the helper functions *)

RECURSIVE Pow2(_)
Pow2(n) == IF n = 0 THEN 1 ELSE 2 * Pow2(n - 1)

\* The i-th of d binary digits of n, the first digit the most significant
Digit(n, i, d) == (n \div Pow2(d - i)) % 2

\* C15: for a shape with d spatial dimensions extents_from_shape returns
\* 2^d distinct corners of d + 1 coordinates, coordinate i being 0 or
\* shape[i+1] and the last one 1, in lexicographic order with the first
\* spatial axis varying slowest; the leading axis does not appear.
C15_ExtentsAreTheCorners ==
    pure.fn = "extents_from_shape"
        => LET d == Len(pure.shape) - 1
               r == pure.result
           IN  /\ Len(r) = Pow2(d)
               /\ \A k, l \in 1..Len(r) : k # l => r[k] # r[l]
               /\ \A k \in 1..Len(r) :
                     /\ Len(r[k]) = d + 1
                     /\ r[k][d + 1] = 1
                     /\ \A i \in 1..d :
                           r[k][i] = IF Digit(k - 1, i, d) = 1
                                     THEN pure.shape[i + 1] ELSE 0

C15_ThreeSpatialAxes ==
    /\ pure.fn = "extents_from_shape"
    /\ Len(pure.shape) = 4
    /\ pure.shape[1] # pure.shape[2]
    /\ Len(pure.result) = 8
    /\ pure.result[2] = <<0, 0, pure.shape[4], 1>>

\* C16: for a non-empty set of homogeneous corners shape_from_extents
\* returns src_shape[0] followed, per spatial axis, by the ceiling of the
\* largest minus the smallest coordinate of that axis over all corners; the
\* homogeneous coordinate is dropped.
C16_ShapeIsCeilOfSpan ==
    (pure.fn = "shape_from_extents" /\ Len(pure.extents) >= 1)
        => LET e == pure.extents
               d == Len(e[1]) - 1
               v == pure.result.value
           IN  /\ pure.result.kind = "returned"
               /\ Len(v) = d + 1
               /\ v[1] = pure.src_shape[1]
               /\ \A i \in 1..d :
                     \E lo, hi \in 1..Len(e) :
                        /\ \A k \in 1..Len(e) : e[lo][i] <= e[k][i] /\ e[k][i] <= e[hi][i]
                        /\ v[i + 1] * Half >= e[hi][i] - e[lo][i]
                        /\ (v[i + 1] - 1) * Half < e[hi][i] - e[lo][i]

C16_FractionalSpanRoundedUp ==
    /\ pure.fn = "shape_from_extents"
    /\ Len(pure.extents) = 4
    /\ Len(pure.extents[1]) = 3
    /\ pure.src_shape[1] = 3
    /\ pure.result.value = <<3, 4, 1>>

\* C17: shape_from_extents given a corner set whose size is not 2^d, d the
\* number of spatial dimensions, fails with an argument error and returns no
\* shape.
C17_WrongCornerCountRejected ==
    (pure.fn = "shape_from_extents" /\ Len(pure.extents) >= 1
       /\ Len(pure.extents) # Pow2(Len(pure.extents[1]) - 1))
        => pure.result.kind = "raised"

\* C18: metadata_is_compatible(a, b) is true when a or b is None, and for
\* two set values exactly when they are equal; it gives the same answer with
\* its arguments exchanged.
C18_CompatibleIffUnsetOrEqual ==
    pure.fn = "metadata_is_compatible"
        => /\ pure.result = (pure.value_1 = NONE \/ pure.value_2 = NONE
                               \/ pure.value_1 = pure.value_2)
           /\ pure.result = metadata_is_compatible(pure.value_2, pure.value_1)

C18_SetAgainstUnset ==
    /\ pure.fn = "metadata_is_compatible"
    /\ pure.value_1 # NONE
    /\ pure.value_2 = NONE
    /\ pure.result

-----------------------------------------------------------------------------
(* Properties of apply's statements *)

\* C19: an apply on one image that runs while an apply on another image
\* runs ends as it ends when run alone, with the same resample calls, the
\* same result or exception and the same queue, and neither changes the
\* other image's queue.
C19_InterleavedAsAlone ==
    \A t \in Runs :
        /\ frames[t].pc # "idle" => images[t] = frames[t].queue_before
        /\ frames[t].pc = "done"
             => LET alone == apply(ImageShape, frames[t].queue_before,
                                   frames[t].pending)
                IN  /\ frames[t].kind = alone.kind
                    /\ frames[t].exc = alone.exc
                    /\ frames[t].value = alone.value
                    /\ frames[t].st = alone.st
                    /\ images[t] = alone.queue

C19_BothRanInterleaved ==
    /\ \A t \in Runs :
          /\ frames[t].pc = "done"
          /\ frames[t].overlapped
          /\ frames[t].i >= 1
    /\ images[1] # images[2]
    /\ Len(images[1]) = 2

\* entry_j @ ... @ entry_1 @ seed
RECURSIVE ComposedOnto(_, _, _)
ComposedOnto(q, j, seed) ==
    IF j = 0 THEN seed
    ELSE MatMul(q[j].matrix, ComposedOnto(q, j - 1, seed))

\* The segment that holds entry j of a queue: where it starts and the
\* metadata accumulated over it up to entry j.  A segment is a maximal run
\* of entries none of which conflicts with what the run has accumulated.
RECURSIVE SegmentAt(_, _)
SegmentAt(q, j) ==
    IF j = 0
    THEN [start |-> 1, acc |-> Unset]
    ELSE LET p == SegmentAt(q, j - 1)
         IN  IF Conflict(p.acc, q[j].metadata)
             THEN [start |-> j, acc |-> Adopted(q[j].metadata)]
             ELSE [start |-> p.start, acc |-> Merged(p.acc, q[j].metadata)]

\* entry_j @ ... @ entry_s @ seed
RECURSIVE ComposedFrom(_, _, _, _)
ComposedFrom(q, s, j, seed) ==
    IF j < s THEN seed
    ELSE MatMul(q[j].matrix, ComposedFrom(q, s, j - 1, seed))

\* C20: after apply has processed an entry, its cumulative matrix is the
\* entries of that entry's segment, from the segment's first entry up to it,
\* composed in queue order onto the centroid seed: the oldest entry of the
\* segment acts first and no entry is skipped, repeated or taken out of
\* order.
C20_CumulativeMatrixComposesInOrder ==
    \A t \in Runs :
        LET q == frames[t].queue_before
            j == frames[t].i
        IN  (frames[t].pc # "idle" /\ j >= 1)
                => frames[t].st.cumulative_matrix =
                      ComposedFrom(q, SegmentAt(q, j).start, j,
                                   MatMul(translate_to_centre(ImageShape), Identity))

\* Inside the first segment the code composes in queue order
FirstSegmentComposedInOrder ==
    \A t \in Runs :
        LET q == frames[t].queue_before
            j == frames[t].i
        IN  (frames[t].pc # "idle" /\ j >= 1 /\ SegmentAt(q, j).start = 1)
                => frames[t].st.cumulative_matrix =
                      ComposedOnto(q, j, MatMul(translate_to_centre(ImageShape), Identity))

-----------------------------------------------------------------------------
(* Properties of apply's segments: boundaries, accumulated metadata, extents *)

\* The seed of a segment: translate_to_centre @ identity
CentroidSeed == MatMul(translate_to_centre(ImageShape), Identity)

\* The metadata accumulated over the first j entries of a queue without a
\* boundary among them
RECURSIVE MergedOver(_, _)
MergedOver(q, j) ==
    IF j = 0 THEN Unset ELSE Merged(MergedOver(q, j - 1), q[j].metadata)

\* The position of the first entry that is incompatible with the metadata
\* accumulated before it; 0 when the queue has no boundary
FirstBoundary(q) ==
    LET bs == {j \in 1..Len(q) : Conflict(MergedOver(q, j - 1), q[j].metadata)}
    IN  IF bs = {} THEN 0 ELSE CHOOSE j \in bs : \A k \in bs : j <= k

\* The metadata accumulated when the queue has been processed: merged
\* within a segment, adopted at a boundary
RECURSIVE Accumulate(_, _)
Accumulate(acc, q) ==
    IF q = <<>>
    THEN acc
    ELSE IF Conflict(acc, Head(q).metadata)
    THEN Accumulate(Adopted(Head(q).metadata), Tail(q))
    ELSE Accumulate(Merged(acc, Head(q).metadata), Tail(q))

\* The locals cur_mode, cur_padding_mode, cur_device, cur_dtype
Cur(st) ==
    [f \in MetadataFields |->
        CASE f = "mode" -> st.cur_mode
          [] f = "padding_mode" -> st.cur_padding_mode
          [] f = "device" -> st.cur_device
          [] f = "dtype" -> st.cur_dtype]

\* The activations that are in or past the loop
InLoop(t) == frames[t].pc # "idle" /\ frames[t].pending.given /\ Len(frames[t].pending.value) > 0

\* C21: when apply meets the first entry that is incompatible with the
\* accumulated metadata, it makes a resample call with the cumulative
\* matrix accumulated before that entry and the metadata accumulated
\* before it.
C21_BoundaryCallUsesWhatCameBefore ==
    \A t \in Runs :
        LET q == frames[t].queue_before
            b == FirstBoundary(q)
            calls == frames[t].st.calls
        IN  (InLoop(t) /\ b >= 1 /\ frames[t].i >= b)
                => /\ Len(calls) >= 1
                   /\ calls[1].affine = ComposedOnto(q, b - 1, CentroidSeed)
                   /\ \A f \in MetadataFields :
                        calls[1].kwargs[f] = MergedOver(q, b - 1)[f]

\* C22: after apply has processed entries that are all compatible with the
\* accumulated metadata, every accumulated field holds the value of the
\* first entry that sets it.
C22_CompatibleEntryFillsUnsetFields ==
    \A t \in Runs :
        LET q == frames[t].queue_before
            b == FirstBoundary(q)
        IN  (InLoop(t) /\ frames[t].i >= 1 /\ (b = 0 \/ frames[t].i < b))
                => Cur(frames[t].st) = MergedOver(q, frames[t].i)

\* C23: once apply has processed the entry at a boundary, the cumulative
\* matrix is that entry's increment composed onto a fresh centroid seed.
C23_BoundaryResetsCumulativeMatrix ==
    \A t \in Runs :
        LET q == frames[t].queue_before
            b == FirstBoundary(q)
        IN  (InLoop(t) /\ b >= 1 /\ frames[t].i = b)
                => frames[t].st.cumulative_matrix = MatMul(q[b].matrix, CentroidSeed)

\* C25: apply on a non-empty queue ends with a resample call that is given
\* the metadata accumulated over the last segment.
C25_FinalCallUsesAccumulatedMetadata ==
    \A t \in Runs :
        LET q == frames[t].queue_before
            calls == frames[t].st.calls
        IN  (InLoop(t) /\ frames[t].pc = "done" /\ Len(q) >= 1)
                => /\ Len(calls) >= 1
                   /\ \A f \in MetadataFields :
                        calls[Len(calls)].kwargs[f] = Accumulate(Unset, q)[f]

\* M @ e: the matrix applied to a corner
MatVec(M, e) ==
    [i \in Dims |-> M[i][1] * e[1] + M[i][2] * e[2] + M[i][3] * e[3]]

\* C26: after apply has processed an entry, the cumulative extents are the
\* image's corners transformed once by the current cumulative matrix.
C26_ExtentsAreCornersTransformedOnce ==
    \A t \in Runs :
        LET corners == extents_from_shape(ImageShape)
        IN  (InLoop(t) /\ frames[t].i >= 1)
                => frames[t].st.cumulative_extents =
                      [k \in 1..Len(corners) |->
                          MatVec(frames[t].st.cumulative_matrix, corners[k])]

\* C27: on entering the loop the cumulative extents are the image's corners,
\* each moved by shape[i] / 2 along every spatial axis, with homogeneous
\* coordinate 1.
C27_SeedExtentsAreTranslatedCorners ==
    \A t \in Runs :
        LET corners == extents_from_shape(ImageShape)
        IN  (InLoop(t) /\ frames[t].i = 0)
                => frames[t].st.cumulative_extents =
                      [k \in 1..Len(corners) |->
                          <<corners[k][1] + ImageShape[2] \div Half,
                            corners[k][2] + ImageShape[3] \div Half, 1>>]

-----------------------------------------------------------------------------
(* What apply hands back *)

\* C30: apply on an image with a non-empty pending queue returns an image
\* to its caller, never None and never an exception.
C30_ApplyReturnsAnImage ==
    (applied.op = "apply" /\ Len(applied.queue_before) >= 1)
        => /\ applied.outcome.kind = "returned"
           /\ applied.outcome.value # NONE

\* Whether apply took its early return: the input handed back, nothing
\* resampled
ReturnedEarly(outcome) ==
    outcome.kind = "returned" /\ outcome.value = "data" /\ outcome.calls = <<>>

\* C31: apply returns early, without resampling, exactly when the image's
\* own pending queue is empty, whatever is passed or not passed as pending.
C31_EarlyReturnIffOwnQueueEmpty ==
    applied.op = "apply"
        => (ReturnedEarly(applied.outcome) <=> applied.queue_before = <<>>)

\* C32: when apply ends by raising, the image's pending queue is what it
\* was before the call.
C32_QueueKeptWhenApplyRaises ==
    \A t \in Runs :
        (frames[t].pc = "done" /\ frames[t].kind = "raised")
            => images[t] = frames[t].queue_before

C32_RaisedAfterTheLoop ==
    \E t \in Runs :
        /\ frames[t].pc = "done"
        /\ frames[t].kind = "raised"
        /\ frames[t].exc = "NameError"
        /\ frames[t].i = 2
        /\ Len(images[t]) = 2

=============================================================================
